---- MODULE Spec2Model ----
(***************************************************************************)
(* BloomBox (src/lib.rs): a Bloom filter over a Vec<bool> with one seeded  *)
(* XxHash per seed, the two constructors, insert, contains, the accessors  *)
(* and the derived serde Serialize / Deserialize.                          *)
(*                                                                         *)
(* Spec runs the constructors, insert, contains and the accessors;         *)
(* SpecSerde runs the constructors and insert with writing a value out,    *)
(* receiving a text and reading a text back.                               *)
(***************************************************************************)
EXTENDS Integers, Sequences, FiniteSets, TLC

\* ---------------------------------------------------------------- bounds
MaxSeedVal == 1     \* seed values are 0..MaxSeedVal
MaxSeeds == 2       \* longest seed list handed to new
MaxSize == 2        \* largest size handed to new
MaxDigest == 1      \* digests are 0..MaxDigest
MaxInserts == 2     \* insert calls per behaviour
MaxExpected == 2    \* largest expected_num_items handed to with_rate
MaxWireLen == 1     \* longest bit_vector, and largest size, of a received record
MaxWireSeeds == 0   \* longest seed list of a received record

\* the items hashed: the two strings of the tests (lib.rs:105, 116)
Items == {"test", "not_test"}
SeedVals == 0..MaxSeedVal
DigestVals == 0..MaxDigest

SeqsUpTo(S, n) == UNION {[1..k -> S] : k \in 0..n}

SeedLists == SeqsUpTo(SeedVals, MaxSeeds)

\* ------------------------------------------------- with_rate arithmetic
\* f64 values are carried as integers scaled by Scale.  The rates are taken
\* from (0, 1], the documented range and its upper end, each with
\* -ln(rate) * Scale; on these and on the item counts used the scaled
\* quotients round up to the same integers as the f64 ones.
Scale == 10000

LN_2 == 6931

Rates == {"1", "3/4", "1/2"}

NegLn(rate) ==
    CASE rate = "1" -> 0
      [] rate = "3/4" -> 2877
      [] rate = "1/2" -> 6931

\* f64::ceil of the non-negative quotient num / den
Ceil(num, den) == (num + den - 1) \div den

\* variant: the quotient truncated instead of rounded up
WithRateMTruncated(rate, n) == (n * NegLn(rate) * Scale) \div (LN_2 * LN_2)

\* lib.rs:39  m = (-n * ln_p / LN_2.powi(2)).ceil() as usize
WithRateM(rate, n) == Ceil(n * NegLn(rate) * Scale, LN_2 * LN_2)

\* lib.rs:40  k = (m as f64 / n * LN_2).ceil() as u64
\* n = 0 gives 0.0 / 0.0 = NaN, and NaN as u64 is 0
WithRateK(m, n) == IF n = 0 THEN 0 ELSE Ceil(m * LN_2, n * Scale)

\* lib.rs:43  (0..k).collect()
SeedRange(k) == [i \in 1..k |-> i - 1]

\* lib.rs:16  vec![false; size]
AllFalse(n) == [i \in 1..n |-> FALSE]

\* ------------------------------------------------------------ the state
VARIABLES
    xxhash,         \* the seeded hash: the digest of each (item, seed) hashed so far
    status,         \* "absent", "ready" or "panicked"
    bit_vector,     \* BloomBox.bit_vector
    seeds,          \* BloomBox.seeds
    size,           \* BloomBox.size
    insert_count,   \* BloomBox.insert_count
    origin,         \* how the value was made: "none", "new", "with_rate", "deserialize"
    args,           \* the arguments of the constructor call
    inserted,       \* items for which insert returned on this value
    calls,          \* number of insert calls that returned on this value
    ret,            \* the last operation and what it returned
    wire,           \* the serialized text at hand, <<>> when there is none
    snap            \* the value wire was serialized from, when it was

filter == <<bit_vector, seeds, size, insert_count>>

vars == <<xxhash, status, bit_vector, seeds, size, insert_count,
          origin, args, inserted, calls, ret, wire, snap>>

NoArgs == [rate |-> "none", n |-> 0]

NoDigests == [p \in {} |-> 0]

Init ==
    /\ xxhash = NoDigests
    /\ status = "absent"
    /\ bit_vector = <<>>
    /\ seeds = <<>>
    /\ size = 0
    /\ insert_count = 0
    /\ origin = "none"
    /\ args = NoArgs
    /\ inserted = {}
    /\ calls = 0
    /\ ret = [op |-> "none"]
    /\ wire = <<>>
    /\ snap = [some |-> FALSE]

\* ---------------------------------------------------------- constructors
\* lib.rs:14-21
New(sz, sds) ==
    /\ status = "absent"
    /\ status' = "ready"
    /\ bit_vector' = AllFalse(sz)
    /\ seeds' = sds
    /\ size' = sz
    /\ insert_count' = 0
    /\ origin' = "new"
    /\ args' = NoArgs
    /\ inserted' = {}
    /\ calls' = 0
    /\ ret' = [op |-> "new"]
    /\ UNCHANGED <<xxhash, wire, snap>>

\* lib.rs:36-51
WithRate(rate, n) ==
    /\ status = "absent"
    /\ LET m == WithRateM(rate, n)
           k == WithRateK(m, n)
       IN /\ bit_vector' = AllFalse(m)
          /\ seeds' = SeedRange(k)
          /\ size' = m
    /\ status' = "ready"
    /\ insert_count' = 0
    /\ origin' = "with_rate"
    /\ args' = [rate |-> rate, n |-> n]
    /\ inserted' = {}
    /\ calls' = 0
    /\ ret' = [op |-> "with_rate"]
    /\ UNCHANGED <<xxhash, wire, snap>>

\* ------------------------------------------------------ hashing, indexing
\* the BloomBox value as a record of its four fields (lib.rs:6-11)
BloomBox(bv, sds, sz, cnt) ==
    [bit_vector |-> bv, seeds |-> sds, size |-> sz, insert_count |-> cnt]

Self == BloomBox(bit_vector, seeds, size, insert_count)

\* lib.rs:54-55: XxHash::with_seed(seed) fed the item is a function of
\* (item, seed) alone.  A digest is drawn the first time its pair is hashed
\* and stays what it is: Hashed(f, item) are the pairs a loop over f.seeds
\* hashes, Digests(h, pairs) the ways to draw the digests h lacks.
Hashed(f, item) == {<<item, f.seeds[i]>> : i \in 1..Len(f.seeds)}

Digests(h, pairs) == {h @@ g : g \in [pairs \ DOMAIN h -> DigestVals]}

\* lib.rs:56: the remainder panics when size is 0
HashPanics(f) == f.size = 0

\* lib.rs:53-57, under the hash h
HashItem(h, f, item, seed) == h[<<item, seed>>] % f.size

\* lib.rs:62 / lib.rs:70: indexing the Vec panics past its end
IndexPanics(bv, idx) == idx >= Len(bv)

\* variant: the bit flipped instead of set
SetBitFlipped(bv, idx) == [bv EXCEPT ![idx + 1] = ~bv[idx + 1]]

\* lib.rs:62  self.bit_vector[hashed] = true
SetBit(bv, idx) == [bv EXCEPT ![idx + 1] = TRUE]

\* variant: the loop left after its first seed
InsertLoopFirstSeed(h, f, bv, item, i) ==
    IF i > Len(f.seeds) THEN [panic |-> FALSE, bv |-> bv]
    ELSE IF HashPanics(f) THEN [panic |-> TRUE, bv |-> bv]
    ELSE LET hashed == HashItem(h, f, item, f.seeds[i])
         IN IF IndexPanics(bv, hashed) THEN [panic |-> TRUE, bv |-> bv]
            ELSE [panic |-> FALSE, bv |-> SetBit(bv, hashed)]

\* lib.rs:60-63: the loop over the seeds from position i on, on the bits bv
RECURSIVE InsertLoop(_, _, _, _, _)
InsertLoop(h, f, bv, item, i) ==
    IF i > Len(f.seeds) THEN [panic |-> FALSE, bv |-> bv]
    ELSE IF HashPanics(f) THEN [panic |-> TRUE, bv |-> bv]
    ELSE LET hashed == HashItem(h, f, item, f.seeds[i])
         IN IF IndexPanics(bv, hashed) THEN [panic |-> TRUE, bv |-> bv]
            ELSE InsertLoop(h, f, SetBit(bv, hashed), item, i + 1)

\* variant: the count bumped only when a bit changed
NextInsertCountIfChanged(old, new, c) == IF old = new THEN c ELSE c + 1

\* lib.rs:64  self.insert_count += 1
NextInsertCount(old, new, c) == c + 1

\* lib.rs:59-65
Insert(item) ==
    /\ status = "ready"
    /\ wire = <<>>
    /\ calls < MaxInserts
    /\ insert_count < MaxInserts
    /\ \E h \in Digests(xxhash, Hashed(Self, item)) :
        LET r == InsertLoop(h, Self, bit_vector, item, 1)
        IN /\ xxhash' = h
           /\ bit_vector' = r.bv
           /\ IF r.panic
              THEN /\ status' = "panicked"
                   /\ UNCHANGED <<insert_count, inserted, calls>>
              ELSE /\ status' = "ready"
                   /\ insert_count' = NextInsertCount(bit_vector, r.bv, insert_count)
                   /\ inserted' = inserted \cup {item}
                   /\ calls' = calls + 1
    /\ ret' = [op |-> "insert", item |-> item]
    /\ UNCHANGED <<seeds, size, origin, args, wire, snap>>

\* variant: true as soon as one bit is set
RECURSIVE ContainsLoopAny(_, _, _, _)
ContainsLoopAny(h, f, item, i) ==
    IF i > Len(f.seeds) THEN [panic |-> FALSE, val |-> Len(f.seeds) = 0]
    ELSE IF HashPanics(f) THEN [panic |-> TRUE, val |-> FALSE]
    ELSE LET hashed == HashItem(h, f, item, f.seeds[i])
         IN IF IndexPanics(f.bit_vector, hashed) THEN [panic |-> TRUE, val |-> FALSE]
            ELSE IF f.bit_vector[hashed + 1] THEN [panic |-> FALSE, val |-> TRUE]
            ELSE ContainsLoopAny(h, f, item, i + 1)

\* lib.rs:68-74: the loop over the seeds from position i on
RECURSIVE ContainsLoop(_, _, _, _)
ContainsLoop(h, f, item, i) ==
    IF i > Len(f.seeds) THEN [panic |-> FALSE, val |-> TRUE]
    ELSE IF HashPanics(f) THEN [panic |-> TRUE, val |-> FALSE]
    ELSE LET hashed == HashItem(h, f, item, f.seeds[i])
         IN IF IndexPanics(f.bit_vector, hashed) THEN [panic |-> TRUE, val |-> FALSE]
            ELSE IF ~f.bit_vector[hashed + 1] THEN [panic |-> FALSE, val |-> FALSE]
            ELSE ContainsLoop(h, f, item, i + 1)

\* lib.rs:67-75
Contains(item) ==
    /\ status = "ready"
    /\ wire = <<>>
    /\ \E h \in Digests(xxhash, Hashed(Self, item)) :
        LET r == ContainsLoop(h, Self, item, 1)
        IN /\ xxhash' = h
           /\ status' = IF r.panic THEN "panicked" ELSE "ready"
           /\ ret' = [op |-> "contains", item |-> item, panic |-> r.panic, val |-> r.val]
    /\ UNCHANGED <<filter, origin, args, inserted, calls, wire, snap>>

\* ---------------------------------------------------------- serialization
\* The derived Serialize writes the four fields by name in declaration order
\* (lib.rs:5-11); the text is modelled as the sequence of its JSON tokens,
\* numbers as their decimal digits.
DigitChars == <<"0", "1", "2", "3", "4", "5", "6", "7", "8", "9">>

RECURSIVE NumToks(_)
NumToks(n) ==
    IF n < 10 THEN <<DigitChars[n + 1]>>
    ELSE NumToks(n \div 10) \o <<DigitChars[(n % 10) + 1]>>

BoolTok(b) == IF b THEN "true" ELSE "false"

RECURSIVE BoolElems(_)
BoolElems(bs) ==
    IF Len(bs) = 0 THEN <<>>
    ELSE IF Len(bs) = 1 THEN <<BoolTok(bs[1])>>
    ELSE <<BoolTok(bs[1]), ",">> \o BoolElems(Tail(bs))

RECURSIVE NumElems(_)
NumElems(ns) ==
    IF Len(ns) = 0 THEN <<>>
    ELSE IF Len(ns) = 1 THEN NumToks(ns[1])
    ELSE NumToks(ns[1]) \o <<",">> \o NumElems(Tail(ns))

\* variant: insert_count left out of the text and read back as 0
SerializeWithoutCount(f) ==
    <<"{", "bit_vector", ":", "[">> \o BoolElems(f.bit_vector) \o <<"]", ",">>
    \o <<"seeds", ":", "[">> \o NumElems(f.seeds) \o <<"]", ",">>
    \o <<"size", ":">> \o NumToks(f.size) \o <<",">>
    \o <<"insert_count", ":", "0", "}">>

Serialize(f) ==
    <<"{", "bit_vector", ":", "[">> \o BoolElems(f.bit_vector) \o <<"]", ",">>
    \o <<"seeds", ":", "[">> \o NumElems(f.seeds) \o <<"]", ",">>
    \o <<"size", ":">> \o NumToks(f.size) \o <<",">>
    \o <<"insert_count", ":">> \o NumToks(f.insert_count) \o <<"}">>

\* The derived Deserialize reads the same text back, field by field, and
\* fails on anything that is not such a record.
At(toks, i, t) == i <= Len(toks) /\ toks[i] = t

IsDigit(t) == \E d \in 1..10 : DigitChars[d] = t

DigitVal(t) == (CHOOSE d \in 1..10 : DigitChars[d] = t) - 1

Fail == [ok |-> FALSE]

RECURSIVE ParseDigits(_, _, _)
ParseDigits(toks, i, acc) ==
    IF i <= Len(toks) /\ IsDigit(toks[i])
    THEN ParseDigits(toks, i + 1, acc * 10 + DigitVal(toks[i]))
    ELSE [ok |-> TRUE, val |-> acc, next |-> i]

ParseNum(toks, i) ==
    IF i <= Len(toks) /\ IsDigit(toks[i]) THEN ParseDigits(toks, i, 0) ELSE Fail

ParseBool(toks, i) ==
    IF At(toks, i, "true") THEN [ok |-> TRUE, val |-> TRUE, next |-> i + 1]
    ELSE IF At(toks, i, "false") THEN [ok |-> TRUE, val |-> FALSE, next |-> i + 1]
    ELSE Fail

ParseElem(toks, i, kind) ==
    IF kind = "bool" THEN ParseBool(toks, i) ELSE ParseNum(toks, i)

\* the elements after "[" or ",", up to and including "]"
RECURSIVE ParseElems(_, _, _, _)
ParseElems(toks, i, kind, acc) ==
    LET e == ParseElem(toks, i, kind)
    IN IF ~e.ok THEN Fail
       ELSE IF At(toks, e.next, ",")
            THEN ParseElems(toks, e.next + 1, kind, Append(acc, e.val))
       ELSE IF At(toks, e.next, "]")
            THEN [ok |-> TRUE, val |-> Append(acc, e.val), next |-> e.next + 1]
       ELSE Fail

ParseArr(toks, i, kind) ==
    IF ~At(toks, i, "[") THEN Fail
    ELSE IF At(toks, i + 1, "]") THEN [ok |-> TRUE, val |-> <<>>, next |-> i + 2]
    ELSE ParseElems(toks, i + 1, kind, <<>>)

\* the position after the tokens `lead`, name, ":" starting at i, or 0
ParseKey(toks, i, lead, name) ==
    IF At(toks, i, lead) /\ At(toks, i + 1, name) /\ At(toks, i + 2, ":")
    THEN i + 3 ELSE 0

Deserialize(toks) ==
    LET k1 == ParseKey(toks, 1, "{", "bit_vector")
        bv == IF k1 = 0 THEN Fail ELSE ParseArr(toks, k1, "bool")
        k2 == IF bv.ok THEN ParseKey(toks, bv.next, ",", "seeds") ELSE 0
        sd == IF k2 = 0 THEN Fail ELSE ParseArr(toks, k2, "num")
        k3 == IF sd.ok THEN ParseKey(toks, sd.next, ",", "size") ELSE 0
        sz == IF k3 = 0 THEN Fail ELSE ParseNum(toks, k3)
        k4 == IF sz.ok THEN ParseKey(toks, sz.next, ",", "insert_count") ELSE 0
        ic == IF k4 = 0 THEN Fail ELSE ParseNum(toks, k4)
    IN IF ic.ok /\ At(toks, ic.next, "}") /\ ic.next = Len(toks)
       THEN [ok |-> TRUE, f |-> BloomBox(bv.val, sd.val, sz.val, ic.val)]
       ELSE Fail

NoSnap == [some |-> FALSE]

\* serde_json::to_string(&bloom_box).  The text is read back before the
\* value is used again (every operation on the value waits for wire = <<>>),
\* as in test_serialize_deserialize.
SerializeOp ==
    /\ status = "ready"
    /\ wire = <<>>
    /\ wire' = Serialize(Self)
    /\ snap' = [some |-> TRUE, f |-> Self]
    /\ ret' = [op |-> "serialize"]
    /\ UNCHANGED <<xxhash, status, filter, origin, args, inserted, calls>>

\* a stored record arrives from outside: any record of the four typed
\* fields, whole or with its last `cut` tokens missing
WireRecords ==
    {BloomBox(bv, sds, sz, cnt) :
        bv \in SeqsUpTo(BOOLEAN, MaxWireLen), sds \in SeqsUpTo(SeedVals, MaxWireSeeds),
        sz \in 0..MaxWireLen, cnt \in 0..1}

Receive(rec, cut) ==
    /\ status = "absent"
    /\ wire = <<>>
    /\ LET toks == Serialize(rec)
       IN wire' = SubSeq(toks, 1, Len(toks) - cut)
    /\ snap' = NoSnap
    /\ ret' = [op |-> "receive"]
    /\ UNCHANGED <<xxhash, status, filter, origin, args, inserted, calls>>

\* serde_json::from_str(&serialized): the caller goes on with the value read
DeserializeOp ==
    /\ status \in {"absent", "ready"}
    /\ wire # <<>>
    /\ LET d == Deserialize(wire)
       IN IF d.ok
          THEN /\ status' = "ready"
               /\ bit_vector' = d.f.bit_vector
               /\ seeds' = d.f.seeds
               /\ size' = d.f.size
               /\ insert_count' = d.f.insert_count
               /\ origin' = "deserialize"
               /\ args' = NoArgs
               /\ inserted' = {}
               /\ calls' = 0
               /\ ret' = [op |-> "deserialize", ok |-> TRUE, from_snap |-> snap.some]
          ELSE /\ ret' = [op |-> "deserialize", ok |-> FALSE, from_snap |-> snap.some]
               /\ UNCHANGED <<status, filter, origin, args, inserted, calls>>
    /\ wire' = <<>>
    /\ snap' = NoSnap
    /\ UNCHANGED xxhash

\* ------------------------------------------------------------- accessors
\* lib.rs:77-79
GetInsertCount ==
    /\ status = "ready"
    /\ wire = <<>>
    /\ ret' = [op |-> "get_insert_count", val |-> insert_count]
    /\ UNCHANGED <<xxhash, status, filter, origin, args, inserted, calls, wire, snap>>

\* lib.rs:81-83
GetSize ==
    /\ status = "ready"
    /\ wire = <<>>
    /\ ret' = [op |-> "get_size", val |-> size]
    /\ UNCHANGED <<xxhash, status, filter, origin, args, inserted, calls, wire, snap>>

\* lib.rs:85-87
GetSeeds ==
    /\ status = "ready"
    /\ wire = <<>>
    /\ ret' = [op |-> "get_seeds", val |-> seeds]
    /\ UNCHANGED <<xxhash, status, filter, origin, args, inserted, calls, wire, snap>>

\* lib.rs:89-91
GetNumSeeds ==
    /\ status = "ready"
    /\ wire = <<>>
    /\ ret' = [op |-> "get_num_seeds", val |-> Len(seeds)]
    /\ UNCHANGED <<xxhash, status, filter, origin, args, inserted, calls, wire, snap>>

Next ==
    \/ \E sz \in 0..MaxSize, sds \in SeedLists : New(sz, sds)
    \/ \E rate \in Rates, n \in 0..MaxExpected : WithRate(rate, n)
    \/ \E item \in Items : Insert(item)
    \/ \E item \in Items : Contains(item)
    \/ GetInsertCount
    \/ GetSize
    \/ GetSeeds
    \/ GetNumSeeds

Spec == Init /\ [][Next]_vars

\* a value built and filled, then written out and read back, or read from
\* a text that arrives from outside
NextSerde ==
    \/ \E sz \in 0..MaxSize, sds \in SeedLists : New(sz, sds)
    \/ \E rate \in Rates, n \in 0..MaxExpected : WithRate(rate, n)
    \/ \E item \in Items : Insert(item)
    \/ SerializeOp
    \/ \E rec \in WireRecords, cut \in 0..1 : Receive(rec, cut)
    \/ DeserializeOp

SpecSerde == Init /\ [][NextSerde]_vars

\* ================================================================ properties
Ctors == {"new", "with_rate"}

\* the bit of f at the 0-based index idx, false past the end of the Vec
Bit(f, idx) == idx < Len(f.bit_vector) /\ f.bit_vector[idx + 1]

\* C1: no false negatives.  Whatever else was inserted before or after,
\* contains answers true, without panicking, for every item that insert
\* accepted on this value; a recorded contains answer says the same.
NoFalseNegatives ==
    status = "ready" =>
        /\ \A x \in inserted :
               LET r == ContainsLoop(xxhash, Self, x, 1)
               IN ~r.panic /\ r.val
        /\ (ret.op = "contains" /\ ret.item \in inserted) => ret.val

NoFalseNegativesWitness ==
    /\ status = "ready"
    /\ ret.op = "contains"
    /\ ret.item \in inserted
    /\ Cardinality(inserted) = 2
    /\ Len(seeds) = 2
    /\ \E j \in 1..Len(bit_vector) : ~bit_vector[j]

\* C2: on a value made by new or with_rate, insert_count is 0 at
\* construction and equals the number of insert calls that returned,
\* duplicates included; contains and the accessors leave it alone, and
\* get_insert_count returns it.
InsertCountIsCalls ==
    origin \in Ctors =>
        /\ insert_count = calls
        /\ ret.op \in {"new", "with_rate"} => insert_count = 0
        /\ ret.op = "get_insert_count" => ret.val = calls

InsertCountIsCallsWitness ==
    /\ origin \in Ctors
    /\ ret.op = "get_insert_count"
    /\ ret.val = 2
    /\ Cardinality(inserted) = 1

\* C3: a value fresh from new or with_rate, never inserted into, answers
\* false to contains.
EmptyFilterContainsNothing ==
    (origin \in Ctors /\ calls = 0 /\ ret.op = "contains") =>
        ~ret.panic /\ ret.val = FALSE

\* C4: reading back the text of a serialized value gives the same
\* bit_vector, seeds, size and insert_count, hence the same contains
\* answer for every item under every hash.
RoundTrip ==
    [][(ret'.op = "deserialize" /\ snap.some) =>
          LET g == BloomBox(bit_vector', seeds', size', insert_count')
          IN /\ ret'.ok
             /\ g = snap.f
             /\ \A item \in Items :
                  \A h \in Digests(xxhash, Hashed(snap.f, item)) :
                      ContainsLoop(h, g, item, 1) = ContainsLoop(h, snap.f, item, 1)]_vars

RoundTripWitness ==
    /\ ret.op = "deserialize"
    /\ ret.ok
    /\ ret.from_snap
    /\ insert_count = 2
    /\ Len(seeds) = 2
    /\ seeds[1] # seeds[2]
    /\ \E i, j \in 1..Len(bit_vector) : bit_vector[i] /\ ~bit_vector[j]

\* C5: no constructor returns a value with a zero-length bit array or with
\* no seeds.
ConstructionRejectsDegenerate ==
    origin \in Ctors => (size > 0 /\ Len(seeds) > 0)

\* C6: insert and contains never panic on a value made by new or with_rate.
InsertContainsTotal ==
    origin \in Ctors => status # "panicked"

\* C7: with_rate(p, n) gives size m = ceil(-n * ln(p) / ln(2)^2), the least
\* integer with m * ln(2)^2 >= -n * ln(p); seeds 0, 1, ..., k-1 in this
\* order with k = ceil(m / n * ln(2)), the least integer with
\* k * n >= m * ln(2); a bit array of length m; and, until the first insert,
\* every bit false and insert_count 0.
SizingCorrect ==
    origin = "with_rate" =>
        LET need == args.n * NegLn(args.rate) * Scale
            k == Len(seeds)
        IN /\ size * (LN_2 * LN_2) >= need
           /\ size > 0 => (size - 1) * (LN_2 * LN_2) < need
           /\ k * args.n * Scale >= size * LN_2
           /\ k > 0 => (k - 1) * args.n * Scale < size * LN_2
           /\ \A i \in 1..k : seeds[i] = i - 1
           /\ Len(bit_vector) = size
           /\ calls = 0 => (insert_count = 0 /\ \A j \in 1..size : ~bit_vector[j])

SizingCorrectWitness ==
    /\ ret.op = "with_rate"
    /\ args = [rate |-> "1/2", n |-> 2]
    /\ size = 3
    /\ seeds = <<0, 1>>
    /\ bit_vector = <<FALSE, FALSE, FALSE>>

\* C8: whichever way the value was obtained, the bit array is as long as
\* size says.
SizeIsLength ==
    status # "absent" => Len(bit_vector) = size

\* C9: an insert that returns sets exactly the bits hash(item, seed) mod size
\* of its seeds and keeps every other bit, the seeds and size; no operation
\* on a value turns a set bit off.
InsertEffect ==
    [][/\ (ret'.op = "insert" /\ calls' = calls + 1) =>
            /\ seeds' = seeds
            /\ size' = size
            /\ Len(bit_vector') = Len(bit_vector)
            /\ \A j \in 1..Len(bit_vector) :
                 bit_vector'[j] =
                    (bit_vector[j] \/ \E i \in 1..Len(seeds) :
                        HashItem(xxhash', Self, ret'.item, seeds[i]) + 1 = j)
       /\ ret'.op \notin {"new", "with_rate", "deserialize"} =>
            /\ Len(bit_vector') = Len(bit_vector)
            /\ \A j \in 1..Len(bit_vector) : bit_vector[j] => bit_vector'[j]]_vars

InsertEffectWitness ==
    /\ ret.op = "insert"
    /\ calls = 2
    /\ Cardinality(inserted) = 2
    /\ Len(seeds) = 2
    /\ seeds[1] # seeds[2]
    /\ HashItem(xxhash, Self, "test", seeds[1]) = HashItem(xxhash, Self, "not_test", seeds[2])
    /\ HashItem(xxhash, Self, "test", seeds[2]) # HashItem(xxhash, Self, "not_test", seeds[1])
    /\ \E j \in 1..Len(bit_vector) : ~bit_vector[j]

\* C10: a contains that returns answers true exactly when the bit at
\* hash(item, seed) mod size is set for every seed, and changes nothing of
\* the value.
ContainsIffAllBits ==
    [][(ret'.op = "contains" /\ ~ret'.panic) =>
          /\ ret'.val =
                (\A i \in 1..Len(seeds) :
                    /\ size > 0
                    /\ Bit(Self, HashItem(xxhash', Self, ret'.item, seeds[i])))
          /\ <<bit_vector', seeds', size', insert_count'>> = filter]_vars

ContainsIffAllBitsWitness ==
    /\ ret.op = "contains"
    /\ ~ret.panic
    /\ ~ret.val
    /\ Len(seeds) = 2
    /\ Bit(Self, HashItem(xxhash, Self, ret.item, seeds[1]))
    /\ ~Bit(Self, HashItem(xxhash, Self, ret.item, seeds[2]))

====
